---- MODULE Spec2Model ----
(***************************************************************************)
(* A model of the GitHub -> JIRA issue converter (src/unnamed/part_000,    *)
(* the program's entry module, and src/GithubDataLoader.ts).              *)
(*                                                                         *)
(* JavaScript values are represented as follows.                           *)
(*   - A string the code takes apart or builds (label names, issue_url,    *)
(*     dates, keys, custom field values) is a sequence of one-character    *)
(*     strings.  A string the code only copies or looks up (logins, JIRA   *)
(*     user names, titles, bodies, issue types, priorities) is a TLA+      *)
(*     string.                                                             *)
(*   - An array is a sequence; a slot that may hold an array or            *)
(*     null/undefined holds [items |-> <the array>] or Null/Undefined.     *)
(*   - A plain object used as a table (issueTypeMap, priorityMap, userMap, *)
(*     a custom field's map) is [entries |-> <<[key, value], ...>>] with   *)
(*     distinct keys, in the order Object.keys enumerates them.            *)
(*   - null and undefined are Null and Undefined where an object is        *)
(*     expected, NullStr and UndefinedStr where a copied string is.        *)
(***************************************************************************)
EXTENDS Integers, Sequences, FiniteSets, TLC

VARIABLES config, github, issuesPromise, commentsPromise, pc, objData,
          jiraData, rejection, rawFile, outputFile

vars == <<config, github, issuesPromise, commentsPromise, pc, objData,
          jiraData, rejection, rawFile, outputFile>>

\* ------------------------------------------------------------------ bounds
MaxIssues == 2
MaxLabels == 2
MaxComments == 2
MaxLen == 3
MaxPrefixes == 2

\* ------------------------------------------------------------ JS values
Null == [null |-> TRUE]
Undefined == [undefined |-> TRUE]
NullStr == "<null>"
UndefinedStr == "<undefined>"

Arr(s) == [items |-> s]
Obj(es) == [entries |-> es]

Range(s) == {s[i] : i \in 1..Len(s)}

\* Array.prototype.includes
Includes(s, x) == \E i \in 1..Len(s) : s[i] = x

\* obj[key] for a table: the entry's value, or undefined
Lookup(obj, key, undef) ==
  IF \E i \in 1..Len(obj.entries) : obj.entries[i].key = key
  THEN obj.entries[CHOOSE i \in 1..Len(obj.entries) : obj.entries[i].key = key].value
  ELSE undef

\* JavaScript truthiness of a copied string / of a built string
Truthy(v) == v \notin {UndefinedStr, NullStr, ""}
TruthyChars(v) == v \notin {<<"undefined">>, <<>>}

\* String.prototype.startsWith
StartsWith(s, p) == Len(p) <= Len(s) /\ SubSeq(s, 1, Len(p)) = p

\* String.prototype.indexOf: the first position where p occurs in s, 0 if none
IndexOf(s, p) ==
  LET hits == {i \in 1..(Len(s) - Len(p) + 1) : SubSeq(s, i, i + Len(p) - 1) = p}
  IN IF hits = {} THEN 0 ELSE CHOOSE i \in hits : \A j \in hits : i <= j

\* s.replace(p, '') with a string pattern: only the first occurrence goes
ReplaceFirst(s, p) ==
  LET i == IndexOf(s, p)
  IN IF i = 0 THEN s ELSE SubSeq(s, 1, i - 1) \o SubSeq(s, i + Len(p), Len(s))

\* s.split(sep) for a one-character separator
RECURSIVE SplitFrom(_, _, _, _)
SplitFrom(s, sep, i, acc) ==
  IF i > Len(s) THEN acc
  ELSE IF s[i] = sep
       THEN SplitFrom(s, sep, i + 1, Append(acc, <<>>))
       ELSE SplitFrom(s, sep, i + 1,
                      [acc EXCEPT ![Len(acc)] = Append(@, s[i])])

Split(s, sep) == SplitFrom(s, sep, 1, << <<>> >>)

\* parts.join(sep)
RECURSIVE Join(_, _)
Join(parts, sep) ==
  IF Len(parts) = 0 THEN <<>>
  ELSE IF Len(parts) = 1 THEN parts[1]
  ELSE parts[1] \o <<sep>> \o Join(Tail(parts), sep)

\* Array.prototype.pop: the last element
Pop(s) == s[Len(s)]

Digit(d) == <<"0", "1", "2", "3", "4", "5", "6", "7", "8", "9">>[d + 1]

\* Number -> string, as in a template literal or a property key
RECURSIVE NumToStr(_)
NumToStr(n) ==
  IF n < 10 THEN <<Digit(n)>> ELSE NumToStr(n \div 10) \o <<Digit(n % 10)>>

\* ------------------------------------------------- program constants
LOG_LEVEL == "debug"
RAW_GITHUB_FILENAME == "github.json"
OUTPUT_FILENAME == "output.json"

\* const { projectKey } = config.jira; the four destructured settings with
\* their defaults; const userMap = config.userMap
projectKey == config.jira.projectKey
priorityMap == config.priorityMap
defaultPriority ==
  IF config.defaultPriority = UndefinedStr THEN "Medium" ELSE config.defaultPriority
issueTypeMap == config.issueTypeMap
defaultIssueType ==
  IF config.defaultIssueType = UndefinedStr THEN "Story" ELSE config.defaultIssueType
userMap == config.userMap
repo == config.github.repo

NoError == "<none>"
NullReduceError == "TypeError: Cannot read property 'reduce' of null"
UndefinedLengthError == "TypeError: Cannot read property 'length' of undefined"
UndefinedSomeError == "TypeError: Cannot read property 'some' of undefined"
HttpError == "HttpError"
FsError == "Error: EACCES"

\* ------------------------------------------------- the markdown library
\* markdownToAtlassianWikiMarkup is an imported package: it rewrites some
\* texts, leaves others as they are, and throws on some.
MarkdownFails(md) == md = "<<bad>>"

markdownToAtlassianWikiMarkup(md) ==
  CASE md = "**b**" -> "*b*"
    [] md = "# h" -> "h1. h"
    [] OTHER -> md

\* try { return markdownToAtlassianWikiMarkup(md) } catch (e) { return md }
mdToWiki(md) ==
  IF MarkdownFails(md) THEN md ELSE markdownToAtlassianWikiMarkup(md)

\* `${githubDate.slice(0, -1)}+00:00`
mapDate(githubDate) ==
  SubSeq(githubDate, 1, Len(githubDate) - 1) \o <<"+", "0", "0", ":", "0", "0">>

mapGithubCommentsToJiraComments(githubComments) ==
  [i \in 1..Len(githubComments) |->
     [body |-> mdToWiki(githubComments[i].body),
      author |-> githubComments[i].user.login,
      created |-> mapDate(githubComments[i].created_at)]]

\* ------------------------------------------------------ Label Classifier
\* The reducer, had it stopped at the first key that matches
RECURSIVE mapLabelToValueFirstMatch(_, _, _, _)
mapLabelToValueFirstMatch(labels, map, k, currentValue) ==
  IF k > Len(map.entries)
  THEN [value |-> currentValue, labels |-> labels]
  ELSE IF \E i \in 1..Len(labels) : labels[i].name = map.entries[k].key
       THEN [value |-> map.entries[k].value,
             labels |-> SelectSeq(labels,
                          LAMBDA label : label.name # map.entries[k].key)]
       ELSE mapLabelToValueFirstMatch(labels, map, k + 1, currentValue)

\* The reducer over Object.keys(map): labels is githubIssue.labels as the
\* keys before k left it, currentValue the accumulator.
RECURSIVE mapLabelToValueReduce(_, _, _, _)
mapLabelToValueReduce(labels, map, k, currentValue) ==
  IF k > Len(map.entries)
  THEN [value |-> currentValue, labels |-> labels]
  ELSE LET githubLabel == map.entries[k].key
           githubLabelNames == [i \in 1..Len(labels) |-> labels[i].name]
       IN IF Includes(githubLabelNames, githubLabel)
          THEN mapLabelToValueReduce(
                 SelectSeq(labels, LAMBDA label : label.name # githubLabel),
                 map, k + 1, map.entries[k].value)
          ELSE mapLabelToValueReduce(labels, map, k + 1, currentValue)

\* Returns the value and githubIssue.labels as the call leaves it.
mapLabelToValue(labels, map, defaultValue) ==
  IF map = Undefined \/ Len(map.entries) = 0
  THEN [value |-> defaultValue, labels |-> labels]
  ELSE mapLabelToValueReduce(labels, map, 1, defaultValue)

\* --------------------------------------------------- Custom Field Mapper
\* StripPrefixes, had it stripped only the first configured prefix that the
\* label starts with
RECURSIVE StripLeadingPrefix(_, _, _)
StripLeadingPrefix(result, prefixes, k) ==
  IF k > Len(prefixes) THEN result
  ELSE IF StartsWith(result, prefixes[k])
       THEN SubSeq(result, Len(prefixes[k]) + 1, Len(result))
       ELSE StripLeadingPrefix(result, prefixes, k + 1)

\* prefixes.reduce((result, prefix) => result.replace(prefix, ''), label)
RECURSIVE StripPrefixes(_, _, _)
StripPrefixes(result, prefixes, k) ==
  IF k > Len(prefixes) THEN result
  ELSE StripPrefixes(ReplaceFirst(result, prefixes[k]), prefixes, k + 1)

\* the value of one field spec with a map
MapFieldValue(names, map) ==
  LET RECURSIVE Reduce(_, _)
      Reduce(i, acc) ==
        IF i > Len(names) THEN acc
        ELSE Reduce(i + 1,
               IF TruthyChars(Lookup(map, names[i], <<"undefined">>))
               THEN Append(acc, Lookup(map, names[i], <<"undefined">>))
               ELSE acc)
  IN Reduce(1, <<>>)

\* the value of one field spec without a map
PrefixFieldValue(names, prefixes) ==
  LET kept == SelectSeq(names, LAMBDA label :
                \E k \in 1..Len(prefixes) : StartsWith(label, prefixes[k]))
      stripped == [i \in 1..Len(kept) |-> StripPrefixes(kept[i], prefixes, 1)]
  IN [i \in 1..Len(stripped) |-> Join(Split(stripped[i], " "), "_")]

\* prefixes.some(...) is reached, on undefined, as soon as there is a label
FieldThrows(names, field) ==
  field.map = Undefined /\ field.prefixes = Undefined /\ Len(names) > 0

\* [threw |-> the error thrown or NoError, value |-> the array returned]
mapLabelsToCustomFields(githubLabels) ==
  LET customFields == config.customFields
      names == [i \in 1..Len(githubLabels) |-> githubLabels[i].name]
  IN IF customFields = Undefined
     THEN [threw |-> UndefinedLengthError, value |-> <<>>]
     ELSE IF Len(customFields.items) = 0
     THEN [threw |-> NoError, value |-> <<>>]
     ELSE IF \E f \in 1..Len(customFields.items) :
               FieldThrows(names, customFields.items[f])
     THEN [threw |-> UndefinedSomeError, value |-> <<>>]
     ELSE [threw |-> NoError,
           value |-> [f \in 1..Len(customFields.items) |->
             LET field == customFields.items[f]
             IN [fieldName |-> field.fieldName,
                 fieldType |-> field.fieldType,
                 value |-> IF field.map # Undefined
                           THEN MapFieldValue(names, field.map)
                           ELSE PrefixFieldValue(names, field.prefixes.items)]]]

\* ----------------------------------------------------------- Issue Mapper
\* Key, had it kept only the last digit of the number
KeyLastDigit(issue) == projectKey \o <<"-">> \o NumToStr(issue.number % 10)

\* key: `${projectKey}-${issue.number}`
Key(issue) == projectKey \o <<"-">> \o NumToStr(issue.number)

\* Reporter, had it been given the assignee's fallback to the raw login
ReporterWithFallback(issue) ==
  IF Truthy(Lookup(userMap, issue.user.login, UndefinedStr))
  THEN Lookup(userMap, issue.user.login, UndefinedStr)
  ELSE issue.user.login

\* reporter: userMap[issue.user.login]
Reporter(issue) == Lookup(userMap, issue.user.login, UndefinedStr)

\* assignee: issue.assignee
\*   ? userMap[issue.assignee.login] || issue.assignee.login : null
Assignee(issue) ==
  IF issue.assignee # Null
  THEN IF Truthy(Lookup(userMap, issue.assignee.login, UndefinedStr))
       THEN Lookup(userMap, issue.assignee.login, UndefinedStr)
       ELSE issue.assignee.login
  ELSE NullStr

\* fixedVersions: issue.milestone ? [issue.milestone.title] : []
FixedVersions(issue) ==
  IF issue.milestone # Null THEN <<issue.milestone.title>> ELSE <<>>

\* comments: issueComments ? mapGithubCommentsToJiraComments(issueComments) : []
Comments(issueComments) ==
  IF issueComments # Undefined
  THEN mapGithubCommentsToJiraComments(issueComments.items)
  ELSE <<>>

\* The object literal of mapGithubIssueToJiraIssue, once its calls have
\* returned: type and priority are the two classifications' results, custom
\* is mapLabelsToCustomFields' result.
\* [threw, issue |-> the source issue as the call leaves it, jira]
JiraIssueLiteral(issue, issueComments, type, priority, custom) ==
  [threw |-> custom.threw,
   issue |-> [issue EXCEPT !.labels = priority.labels],
   jira |->
     [key |-> Key(issue),
      status |-> "To Do",
      resolution |-> IF issue.state = "closed" THEN "Fixed" ELSE NullStr,
      reporter |-> Reporter(issue),
      assignee |-> Assignee(issue),
      fixedVersions |-> FixedVersions(issue),
      created |-> mapDate(issue.created_at),
      updated |-> mapDate(issue.updated_at),
      summary |-> issue.title,
      description |-> mdToWiki(issue.body),
      issueType |-> type.value,
      priority |-> priority.value,
      labels |-> [i \in 1..Len(priority.labels) |-> priority.labels[i].name],
      customFieldValues |-> custom.value,
      comments |-> Comments(issueComments)]]

\* labels: and customFieldValues: read issue.labels as priority: left it
AfterPriority(issue, issueComments, type, priority) ==
  JiraIssueLiteral(issue, issueComments, type, priority,
                   mapLabelsToCustomFields(priority.labels))

\* AfterIssueType, had priority: been classified on the labels the issue
\* came with
AfterIssueTypeOnOriginalLabels(issue, issueComments, type) ==
  AfterPriority(issue, issueComments, type,
                mapLabelToValue(issue.labels, priorityMap, defaultPriority))

\* priority: is evaluated after issueType:, on the labels that call left
AfterIssueType(issue, issueComments, type) ==
  AfterPriority(issue, issueComments, type,
                mapLabelToValue(type.labels, priorityMap, defaultPriority))

\* issueComments is commentsDictionary[issue.number]: Arr(...) or Undefined
mapGithubIssueToJiraIssue(issue, issueComments) ==
  AfterIssueType(issue, issueComments,
                 mapLabelToValue(issue.labels, issueTypeMap, defaultIssueType))

\* commentsDictionary[issue.number]: the number becomes a property key
DictionaryGet(commentsDictionary, number) ==
  IF NumToStr(number) \in DOMAIN commentsDictionary
  THEN Arr(commentsDictionary[NumToStr(number)])
  ELSE Undefined

\* The index of the first call that threw, 0 if none did
FirstThrow(mapped) ==
  IF \A i \in 1..Len(mapped) : mapped[i].threw = NoError THEN 0
  ELSE CHOOSE i \in 1..Len(mapped) :
         /\ mapped[i].threw # NoError
         /\ \A j \in 1..(i - 1) : mapped[j].threw = NoError

\* What githubIssues.map leaves: the calls run in order and the first throw
\* ends the map; the issues mapped so far, that one included, keep their
\* new labels.
MapOutcome(githubIssues, mapped, first) ==
  [threw |-> IF first = 0 THEN NoError ELSE mapped[first].threw,
   githubIssues |-> [i \in 1..Len(githubIssues) |->
                       IF first = 0 \/ i <= first
                       THEN mapped[i].issue ELSE githubIssues[i]],
   issues |-> IF first = 0
              THEN [i \in 1..Len(githubIssues) |-> mapped[i].jira]
              ELSE <<>>]

MapOutcomeOf(githubIssues, mapped) ==
  MapOutcome(githubIssues, mapped, FirstThrow(mapped))

mapGithubIssuesToJiraIssues(githubIssues, commentsDictionary) ==
  MapOutcomeOf(githubIssues,
    [i \in 1..Len(githubIssues) |->
       mapGithubIssueToJiraIssue(githubIssues[i],
         DictionaryGet(commentsDictionary, githubIssues[i].number))])

\* -------------------------------------------------------- Comment Grouper
\* The reducer, had it started a new group at every comment
RECURSIVE createCommentDictionaryOverwrite(_, _, _)
createCommentDictionaryOverwrite(githubComments, i, dictionary) ==
  IF i > Len(githubComments) THEN dictionary
  ELSE createCommentDictionaryOverwrite(githubComments, i + 1,
         [k \in DOMAIN dictionary \cup {Pop(Split(githubComments[i].issue_url, "/"))} |->
            IF k = Pop(Split(githubComments[i].issue_url, "/"))
            THEN <<githubComments[i]>>
            ELSE dictionary[k]])

\* The dictionary is a function from the keys present to arrays of comments.
RECURSIVE createCommentDictionaryReduce(_, _, _)
createCommentDictionaryReduce(githubComments, i, dictionary) ==
  IF i > Len(githubComments) THEN dictionary
  ELSE LET comment == githubComments[i]
           issueNumber == Pop(Split(comment.issue_url, "/"))
       IN createCommentDictionaryReduce(githubComments, i + 1,
            [k \in DOMAIN dictionary \cup {issueNumber} |->
               IF k = issueNumber
               THEN IF issueNumber \in DOMAIN dictionary
                    THEN Append(dictionary[issueNumber], comment)
                    ELSE <<comment>>
               ELSE dictionary[k]])

createCommentDictionary(githubComments) ==
  createCommentDictionaryReduce(githubComments, 1, [k \in {} |-> <<>>])

\* ------------------------------------------------------ Project Assembler
\* [...new Set(xs)]: the distinct elements, each at its first occurrence
AddToSet(members, x) == IF Includes(members, x) THEN members ELSE Append(members, x)

RECURSIVE Distinct(_)
Distinct(xs) ==
  IF Len(xs) = 0 THEN <<>>
  ELSE AddToSet(Distinct(SubSeq(xs, 1, Len(xs) - 1)), xs[Len(xs)])

\* issues.flatMap(issue => issue.fixedVersions)
RECURSIVE FlatMapFixedVersions(_)
FlatMapFixedVersions(issues) ==
  IF Len(issues) = 0 THEN <<>>
  ELSE issues[1].fixedVersions \o FlatMapFixedVersions(Tail(issues))

\* Versions without the Set
VersionsNoSet(issues) == FlatMapFixedVersions(issues)

Versions(issues) == Distinct(FlatMapFixedVersions(issues))

\* The project literal and the returned object, given the mapped issues
Assemble(githubData, result) ==
  [threw |-> result.threw,
   githubData |-> [githubData EXCEPT !.githubIssues = Arr(result.githubIssues)],
   jiraData |->
     IF result.threw = NoError
     THEN [projects |-> <<[name |-> repo,
                           externalName |-> repo,
                           key |-> config.jira.projectKey,
                           issues |-> result.issues,
                           versions |-> Versions(result.issues)]>>]
     ELSE Undefined]

\* [threw, githubData |-> the argument as the call leaves it, jiraData]
mapGithubDataToJiraData(githubData) ==
  IF githubData.githubComments = Null
  THEN [threw |-> NullReduceError, githubData |-> githubData, jiraData |-> Undefined]
  ELSE Assemble(githubData,
         mapGithubIssuesToJiraIssues(githubData.githubIssues.items,
           createCommentDictionary(githubData.githubComments.items)))

\* ------------------------------------------------------------- the run
Pending == [state |-> "pending", value |-> Undefined]
Fulfilled(v) == [state |-> "fulfilled", value |-> v]
Rejected == [state |-> "rejected", value |-> Undefined]

\* GithubDataLoader.fetchIssues: the paginated request delivers the issues
FetchIssuesResolve ==
  /\ issuesPromise.state = "pending"
  /\ issuesPromise' = Fulfilled(Arr(github.issues))
  /\ UNCHANGED <<config, github, commentsPromise, pc, objData, jiraData,
                 rejection, rawFile, outputFile>>

\* ... or the request fails
FetchIssuesReject ==
  /\ issuesPromise.state = "pending"
  /\ issuesPromise' = Rejected
  /\ UNCHANGED <<config, github, commentsPromise, pc, objData, jiraData,
                 rejection, rawFile, outputFile>>

\* GithubDataLoader.fetchComments, called only with includeComments
FetchCommentsResolve ==
  /\ commentsPromise.state = "pending"
  /\ commentsPromise' = Fulfilled(Arr(github.comments))
  /\ UNCHANGED <<config, github, issuesPromise, pc, objData, jiraData,
                 rejection, rawFile, outputFile>>

FetchCommentsReject ==
  /\ commentsPromise.state = "pending"
  /\ commentsPromise' = Rejected
  /\ UNCHANGED <<config, github, issuesPromise, pc, objData, jiraData,
                 rejection, rawFile, outputFile>>

\* Promise.all(dataSets) is fulfilled and the first then builds objData
PromiseAllThen ==
  /\ pc = "Promise.all"
  /\ issuesPromise.state = "fulfilled"
  /\ commentsPromise.state = "fulfilled"
  /\ objData' = [githubIssues |-> issuesPromise.value,
                 githubComments |-> commentsPromise.value]
  /\ pc' = "writeRaw"
  /\ UNCHANGED <<config, github, issuesPromise, commentsPromise, jiraData,
                 rejection, rawFile, outputFile>>

\* Promise.all(dataSets) rejects as soon as one of the two does
PromiseAllReject ==
  /\ pc = "Promise.all"
  /\ issuesPromise.state = "rejected" \/ commentsPromise.state = "rejected"
  /\ rejection' = HttpError
  /\ pc' = "catch"
  /\ UNCHANGED <<config, github, issuesPromise, commentsPromise, objData,
                 jiraData, rawFile, outputFile>>

\* LOG_LEVEL === 'debug' ? writeJSON(objData, RAW_GITHUB_FILENAME) : objData
WriteRawJSON ==
  /\ pc = "writeRaw"
  /\ rawFile' = IF LOG_LEVEL = "debug" THEN Append(rawFile, objData) ELSE rawFile
  /\ pc' = "map"
  /\ UNCHANGED <<config, github, issuesPromise, commentsPromise, objData,
                 jiraData, rejection, outputFile>>

\* fs.writeFileSync throws
WriteRawJSONFails ==
  /\ pc = "writeRaw"
  /\ LOG_LEVEL = "debug"
  /\ rejection' = FsError
  /\ pc' = "catch"
  /\ UNCHANGED <<config, github, issuesPromise, commentsPromise, objData,
                 jiraData, rawFile, outputFile>>

\* Settle, had the mapping step caught its own exception and handed on
\* whatever it had
SettleSwallow(r) ==
  /\ objData' = r.githubData
  /\ jiraData' = r.jiraData
  /\ rejection' = r.threw
  /\ pc' = "writeOutput"

\* The promise the third then returns: fulfilled with r.jiraData, or
\* rejected with what mapGithubDataToJiraData threw
Settle(r) ==
  /\ objData' = r.githubData
  /\ jiraData' = r.jiraData
  /\ rejection' = r.threw
  /\ pc' = IF r.threw = NoError THEN "writeOutput" ELSE "catch"

\* .then(mapGithubDataToJiraData)
MapGithubData ==
  /\ pc = "map"
  /\ Settle(mapGithubDataToJiraData(objData))
  /\ UNCHANGED <<config, github, issuesPromise, commentsPromise, rawFile,
                 outputFile>>

\* .then(jiraData => writeJSON(jiraData, OUTPUT_FILENAME))
WriteOutputJSON ==
  /\ pc = "writeOutput"
  /\ outputFile' = Append(outputFile, jiraData)
  /\ pc' = "done"
  /\ UNCHANGED <<config, github, issuesPromise, commentsPromise, objData,
                 jiraData, rejection, rawFile>>

WriteOutputJSONFails ==
  /\ pc = "writeOutput"
  /\ rejection' = FsError
  /\ pc' = "catch"
  /\ UNCHANGED <<config, github, issuesPromise, commentsPromise, objData,
                 jiraData, rawFile, outputFile>>

\* .catch(e => { console.log(...); throw e; })
Catch ==
  /\ pc = "catch"
  /\ pc' = "aborted"
  /\ UNCHANGED <<config, github, issuesPromise, commentsPromise, objData,
                 jiraData, rejection, rawFile, outputFile>>

Next ==
  \/ FetchIssuesResolve
  \/ FetchIssuesReject
  \/ FetchCommentsResolve
  \/ FetchCommentsReject
  \/ PromiseAllThen
  \/ PromiseAllReject
  \/ WriteRawJSON
  \/ WriteRawJSONFails
  \/ MapGithubData
  \/ WriteOutputJSON
  \/ WriteOutputJSONFails
  \/ Catch

\* ---------------------------------------------------------- the inputs
SeqsUpTo(S, n) == UNION {[1..k -> S] : k \in 0..n}

Str_bug == <<"b", "u", "g">>
Str_feat == <<"f", "e", "a", "t">>
Str_p1 == <<"p", "1">>
Str_team == <<"t", "-", "x", " ", "y">>
Date1 == <<"2", "1", "T", "0", "Z">>
Date2 == <<"2", "2", "T", "9", "Z">>

BaseIssue ==
  [number |-> 1, state |-> "open", user |-> [login |-> "octocat"],
   assignee |-> Null, created_at |-> Date1, updated_at |-> Date2,
   title |-> "a title", body |-> "**b**", milestone |-> Null, labels |-> <<>>]

BaseComment ==
  [body |-> "# h", user |-> [login |-> "hubot"], created_at |-> Date1,
   issue_url |-> <<"r", "/", "i", "/", "1">>]

TeamField ==
  [fieldName |-> "Team", fieldType |-> "labels", map |-> Undefined,
   prefixes |-> Arr(<< <<"t", "-">> >>)]

BaseConfig ==
  [github |-> [repo |-> "repo", includeComments |-> TRUE],
   jira |-> [projectKey |-> <<"P", "R">>],
   priorityMap |-> Undefined, defaultPriority |-> UndefinedStr,
   issueTypeMap |-> Undefined, defaultIssueType |-> UndefinedStr,
   userMap |-> Obj(<<[key |-> "octocat", value |-> "jira.octo"]>>),
   customFields |-> Arr(<<>>)]

\* The state when the module has been loaded: the configuration is read, the
\* two requests are started; without includeComments the second element of
\* dataSets is Promise.resolve(null).
InitWith(configs, issueLists, commentLists) ==
  /\ config \in configs
  /\ github \in [issues : issueLists, comments : commentLists]
  /\ issuesPromise = Pending
  /\ commentsPromise =
       IF config.github.includeComments THEN Pending ELSE Fulfilled(Null)
  /\ pc = "Promise.all"
  /\ objData = Undefined
  /\ jiraData = Undefined
  /\ rejection = NoError
  /\ rawFile = <<>>
  /\ outputFile = <<>>

\* The whole run: comments fetched or not, custom fields absent, empty or set
RunConfigs ==
  {[BaseConfig EXCEPT !.github.includeComments = ic, !.customFields = cf] :
     ic \in BOOLEAN, cf \in {Undefined, Arr(<<>>), Arr(<<TeamField>>)}}

RunIssues ==
  {[BaseIssue EXCEPT !.number = n, !.labels = ls, !.body = b] :
     n \in {1, 2},
     ls \in {<<>>, <<[name |-> Str_team]>>},
     b \in {"**b**", "<<bad>>"}}

RunComments ==
  {[BaseComment EXCEPT !.issue_url = u] :
     u \in {<<"r", "/", "i", "/", "1">>, <<"r", "/", "i", "/", "2">>}}

Init ==
  InitWith(RunConfigs, SeqsUpTo(RunIssues, MaxIssues),
           SeqsUpTo(RunComments, MaxComments))

Spec == Init /\ [][Next]_vars

\* Issues that differ in number, reporter, assignee and milestone
User_octocat == [login |-> "octocat"]
User_hubot == [login |-> "hubot"]

IssuesPool ==
  {[BaseIssue EXCEPT !.number = n, !.user = u, !.assignee = a, !.milestone = m] :
     n \in {2, 12},
     u \in {User_octocat, User_hubot},
     a \in {Null, User_octocat, User_hubot},
     m \in {Null, [title |-> "v1"], [title |-> "v2"]}}

InitIssues ==
  InitWith({BaseConfig}, SeqsUpTo(IssuesPool, MaxIssues), {<<>>, <<BaseComment>>})

SpecIssues == InitIssues /\ [][Next]_vars

\* Comments on issues 2 and 12, on an issue that is not fetched, and from
\* another repository path; the two bodies convert differently
CommentsPool ==
  {[BaseComment EXCEPT !.issue_url = u, !.body = b] :
     u \in {<<"r", "/", "i", "/", "2">>, <<"r", "/", "i", "/", "1", "2">>,
            <<"r", "/", "i", "/", "1">>, <<"q", "/", "2">>},
     b \in {"# h", "<<bad>>"}}

InitComments ==
  InitWith({BaseConfig},
           SeqsUpTo({[BaseIssue EXCEPT !.number = n] : n \in {2, 12}}, MaxIssues),
           SeqsUpTo(CommentsPool, MaxComments))

SpecComments == InitComments /\ [][Next]_vars

\* One issue whose labels meet the two classification tables and the
\* custom fields
LabelNames == {Str_bug, Str_feat, Str_p1, Str_team}

NoRepeat(s) == \A i, j \in 1..Len(s) : s[i] = s[j] => i = j

\* an issue carries a label at most once
LabelLists ==
  {[i \in 1..Len(names) |-> [name |-> names[i]]] :
     names \in {s \in SeqsUpTo(LabelNames, MaxLabels) : NoRepeat(s)}}

Entry(k, v) == [key |-> k, value |-> v]

IssueTypeMaps ==
  {Undefined, Obj(<<>>),
   Obj(<<Entry(Str_bug, "Bug"), Entry(Str_feat, "Story")>>),
   Obj(<<Entry(Str_feat, "Story"), Entry(Str_bug, "Bug")>>),
   Obj(<<Entry(Str_bug, "Bug"), Entry(Str_p1, "Task")>>)}

PriorityMaps ==
  {Undefined, Obj(<<>>),
   Obj(<<Entry(Str_p1, "High"), Entry(Str_bug, "Low")>>),
   Obj(<<Entry(Str_bug, "Low"), Entry(Str_p1, "High")>>)}

KindField ==
  [fieldName |-> "Kind", fieldType |-> "select",
   map |-> Obj(<<Entry(Str_bug, <<"d", "e", "f">>), Entry(Str_p1, <<"u", "r", "g">>),
                 Entry(Str_team, <<"t", "m">>)>>),
   prefixes |-> Undefined]

LabelsConfigs ==
  {[BaseConfig EXCEPT !.issueTypeMap = tm, !.priorityMap = pm, !.customFields = cf] :
     tm \in IssueTypeMaps, pm \in PriorityMaps,
     cf \in {Arr(<<>>), Arr(<<KindField, TeamField>>)}}

InitLabels ==
  InitWith(LabelsConfigs,
           {<<[BaseIssue EXCEPT !.labels = ls]>> : ls \in LabelLists},
           {<<>>})

SpecLabels == InitLabels /\ [][Next]_vars

\* One custom field with prefixes; one label of the issue is any string of
\* up to MaxLen characters
PrefixChars == {"t", "-", " "}
PrefixStrings == {<<"t", "-">>, <<"-">>, <<"t">>}
FreeNames == UNION {[1..k -> PrefixChars] : k \in 1..MaxLen}

PrefixLabelLists ==
  {<<>>}
  \cup {<<[name |-> s]>> : s \in FreeNames}
  \cup {<<[name |-> s], [name |-> Str_team]>> : s \in FreeNames \ {Str_team}}
  \cup {<<[name |-> Str_team], [name |-> s]>> : s \in FreeNames \ {Str_team}}

PrefixesConfigs ==
  {[BaseConfig EXCEPT !.customFields =
      Arr(<<[TeamField EXCEPT !.prefixes = Arr(ps)]>>)] :
     ps \in SeqsUpTo(PrefixStrings, MaxPrefixes)}

InitPrefixes ==
  InitWith(PrefixesConfigs,
           {<<[BaseIssue EXCEPT !.labels = ls]>> : ls \in PrefixLabelLists},
           {<<>>})

SpecPrefixes == InitPrefixes /\ [][Next]_vars

\* ================================================================ claims
\* What the run has produced, when it has
Produced == jiraData # Undefined
Project == jiraData.projects[1]

\* ---------------------------------------------------------------- C4
\* C4: the final output artifact is written at most once, and only when
\* both retrievals are fulfilled, every source issue has been mapped and the
\* project assembled; a run that failed anywhere has written no output.
C4_AllOrNothing ==
  /\ Len(outputFile) <= 1
  /\ rejection # NoError => outputFile = <<>>
  /\ pc \in {"catch", "aborted"} => outputFile = <<>>
  /\ outputFile # <<>> =>
       /\ pc = "done"
       /\ issuesPromise.state = "fulfilled"
       /\ commentsPromise.state = "fulfilled"
       /\ outputFile[1] # Undefined
       /\ outputFile[1] = jiraData
       /\ Len(outputFile[1].projects) = 1
       /\ Len(outputFile[1].projects[1].issues) = Len(github.issues)

\* A run over two issues that wrote its output
C4_Witness ==
  /\ pc = "done"
  /\ Len(outputFile) = 1
  /\ Len(github.issues) >= 2
  /\ Len(Project.issues) = Len(github.issues)

\* ---------------------------------------------------------------- C2
\* C2: with comment inclusion disabled (the comment collection is null) the
\* run does not fail on the absent collection: the mapping step does not
\* throw, and a finished run has mapped every source issue, each with an
\* empty comments list.
C2_AbsentCommentsRunCompletes ==
  ~config.github.includeComments =>
    /\ rejection # NullReduceError
    /\ pc = "done" =>
         /\ Len(Project.issues) = Len(github.issues)
         /\ \A i \in 1..Len(Project.issues) : Project.issues[i].comments = <<>>

\* ---------------------------------------------------------------- C3
\* C3: with no custom-field specs configured (the list is empty, or the
\* setting is absent) mapping an issue is not an error: the mapping step
\* does not throw on the missing list, and every mapped issue has an empty
\* customFieldValues list.
C3_NoCustomFieldSpecsIsNoError ==
  (config.customFields = Undefined \/ config.customFields = Arr(<<>>)) =>
    /\ rejection # UndefinedLengthError
    /\ Produced =>
         \A i \in 1..Len(Project.issues) :
           Project.issues[i].customFieldValues = <<>>

\* ---------------------------------------------------------------- C7
\* C7: the assembled project's versions hold exactly the strings that occur
\* in some target issue's fixedVersions, each once; and each target issue's
\* fixedVersions is the one-element list of its source issue's milestone
\* title, or empty when the source issue has no milestone.
C7_VersionsAreTheDistinctUnion ==
  Produced =>
    /\ Range(Project.versions) =
         UNION {Range(Project.issues[i].fixedVersions) :
                  i \in 1..Len(Project.issues)}
    /\ \A i, j \in 1..Len(Project.versions) :
         Project.versions[i] = Project.versions[j] => i = j
    /\ \A i \in 1..Len(Project.issues) :
         Project.issues[i].fixedVersions =
           IF github.issues[i].milestone = Null THEN <<>>
           ELSE <<github.issues[i].milestone.title>>

\* Two issues share a milestone and the project lists it once
C7_Witness ==
  /\ pc = "done"
  /\ Len(Project.issues) = 2
  /\ Project.issues[1].fixedVersions = <<"v1">>
  /\ Project.issues[2].fixedVersions = <<"v1">>
  /\ Project.versions = <<"v1">>

\* ---------------------------------------------------------------- C9
HasEntry(login) == \E e \in Range(config.userMap.entries) : e.key = login
EntryOf(login) == (CHOOSE e \in Range(config.userMap.entries) : e.key = login).value

\* C9: the target assignee is the user table's entry for the source
\* assignee's login when there is one, the raw login when there is none, and
\* null when the source issue has no assignee; the target reporter is the
\* user table's entry for the reporter's login, and undefined (never the raw
\* login) when there is none.
C9_IdentityResolution ==
  Produced =>
    \A i \in 1..Len(Project.issues) :
      LET source == github.issues[i]
          target == Project.issues[i]
      IN /\ source.assignee = Null => target.assignee = NullStr
         /\ (source.assignee # Null /\ HasEntry(source.assignee.login)) =>
              target.assignee = EntryOf(source.assignee.login)
         /\ (source.assignee # Null /\ ~HasEntry(source.assignee.login)) =>
              target.assignee = source.assignee.login
         /\ HasEntry(source.user.login) =>
              target.reporter = EntryOf(source.user.login)
         /\ ~HasEntry(source.user.login) =>
              /\ target.reporter = UndefinedStr
              /\ target.reporter # source.user.login

\* An issue reported by and assigned to a login the user table lacks
C9_Witness ==
  /\ Produced
  /\ \E i \in 1..Len(Project.issues) :
       /\ github.issues[i].user.login = "hubot"
       /\ github.issues[i].assignee = User_hubot
       /\ Project.issues[i].reporter = UndefinedStr
       /\ Project.issues[i].assignee = "hubot"

\* ---------------------------------------------------------------- C10
DigitValue(c) == CHOOSE d \in 0..9 : Digit(d) = c
IsDigit(c) == \E d \in 0..9 : Digit(d) = c

RECURSIVE NumeralValue(_)
NumeralValue(cs) ==
  IF Len(cs) = 0 THEN 0
  ELSE 10 * NumeralValue(SubSeq(cs, 1, Len(cs) - 1)) + DigitValue(cs[Len(cs)])

\* cs is the decimal numeral of n: digits only, no leading zero, value n
IsNumeralOf(cs, n) ==
  /\ Len(cs) >= 1
  /\ \A k \in 1..Len(cs) : IsDigit(cs[k])
  /\ Len(cs) > 1 => cs[1] # "0"
  /\ NumeralValue(cs) = n

\* C10: the output has one target issue per source issue, in source order;
\* each key is the project key, a hyphen and the decimal numeral of the
\* source issue's number; and source issues with different numbers get
\* different keys.
C10_KeysAreProjectKeyAndNumber ==
  Produced =>
    /\ Len(Project.issues) = Len(github.issues)
    /\ \A i \in 1..Len(Project.issues) :
         LET key == Project.issues[i].key
             head == Len(config.jira.projectKey) + 1
         IN /\ Len(key) > head
            /\ SubSeq(key, 1, head - 1) = config.jira.projectKey
            /\ key[head] = "-"
            /\ IsNumeralOf(SubSeq(key, head + 1, Len(key)), github.issues[i].number)
    /\ \A i, j \in 1..Len(Project.issues) :
         github.issues[i].number # github.issues[j].number =>
           Project.issues[i].key # Project.issues[j].key

\* Issues 2 and 12 of one run
C10_Witness ==
  /\ pc = "done"
  /\ Len(Project.issues) = 2
  /\ github.issues[1].number = 12
  /\ github.issues[2].number = 2
  /\ Project.issues[1].key = <<"P", "R", "-", "1", "2">>
  /\ Project.issues[2].key = <<"P", "R", "-", "2">>

\* ---------------------------------------------------------------- C8
EndsWith(s, suffix) ==
  /\ Len(suffix) <= Len(s)
  /\ \A k \in 1..Len(suffix) : s[Len(s) - Len(suffix) + k] = suffix[k]

\* url ends in /N, N the decimal numeral of n
EndsInNumber(url, n) ==
  \E k \in 1..Len(url) :
    /\ url[k] = "/"
    /\ IsNumeralOf(SubSeq(url, k + 1, Len(url)), n)

\* C8: createCommentDictionary partitions the comments by the trailing path
\* segment of issue_url: the group under a key holds exactly the comments
\* whose issue_url ends in a slash and that key, in input order, and every
\* comment is in one group; so the target issue numbered N carries, one to
\* one and in input order, the comments whose issue_url ends in /N, and an
\* issue without such a comment gets an empty comments list.
C8_CommentsGroupedByIssue ==
  Produced =>
    LET dictionary == createCommentDictionary(github.comments)
    IN /\ \A key \in DOMAIN dictionary :
            /\ \A k \in 1..Len(key) : key[k] # "/"
            /\ dictionary[key] =
                 SelectSeq(github.comments,
                           LAMBDA c : EndsWith(c.issue_url, <<"/">> \o key))
            /\ dictionary[key] # <<>>
       /\ \A c \in 1..Len(github.comments) :
            \E key \in DOMAIN dictionary :
              EndsWith(github.comments[c].issue_url, <<"/">> \o key)
       /\ \A i \in 1..Len(Project.issues) :
            LET own == SelectSeq(github.comments,
                         LAMBDA c : EndsInNumber(c.issue_url, github.issues[i].number))
                got == Project.issues[i].comments
            IN /\ Len(got) = Len(own)
               /\ \A j \in 1..Len(own) :
                    /\ got[j].author = own[j].user.login
                    /\ got[j].body = mdToWiki(own[j].body)
                    /\ got[j].created = mapDate(own[j].created_at)

\* Issue 12 carries its two comments in input order, issue 2 has none
C8_Witness ==
  /\ pc = "done"
  /\ Len(Project.issues) = 2
  /\ github.issues[1].number = 12
  /\ github.issues[2].number = 2
  /\ Len(github.comments) = 2
  /\ github.comments[1].body = "<<bad>>"
  /\ github.comments[2].body = "# h"
  /\ Len(Project.issues[1].comments) = 2
  /\ Project.issues[1].comments[1].body = "<<bad>>"
  /\ Project.issues[1].comments[2].body = "h1. h"
  /\ Project.issues[2].comments = <<>>

\* ---------------------------------------------------------------- C1
NamesOf(labels) == [i \in 1..Len(labels) |-> labels[i].name]
IsEmptyTable(map) == map = Undefined \/ map = Obj(<<>>)
KeysOf(map) == IF IsEmptyTable(map) THEN {} ELSE {e.key : e \in Range(map.entries)}
Least(S) == CHOOSE k \in S : \A m \in S : k <= m
Greatest(S) == CHOOSE k \in S : \A m \in S : k >= m
\* the positions of the table's keys that occur among the names
Matches(map, names) ==
  {k \in 1..Len(map.entries) : map.entries[k].key \in Range(names)}
Without(names, removed) == SelectSeq(names, LAMBDA n : n \notin removed)

LastMatchConsumesAll(map, default, names, value, left) ==
  /\ value = IF Matches(map, names) = {} THEN default
             ELSE map.entries[Greatest(Matches(map, names))].value
  /\ left = Without(names, KeysOf(map))

HasKey(map, name) == \E e \in Range(map.entries) : e.key = name
ValueAt(map, name) == (CHOOSE e \in Range(map.entries) : e.key = name).value

\* C5: within one issue the issue type is classified first, then the
\* priority, then the labels are listed, then the custom fields are mapped.
\* The priority classification does not see a label the issue-type
\* classification consumed; the target labels are the names left after the
\* two classifications, which is what the source issue still carries when
\* the custom fields have been mapped; and the custom field values come from
\* those names alone.
C5_ConsumedLabelsAreInvisibleDownstream ==
  Produced =>
    \A i \in 1..Len(Project.issues) :
      LET names == NamesOf(github.issues[i].labels)
          target == Project.issues[i]
          afterType == Without(names, KeysOf(config.issueTypeMap))
          afterPriority == Without(afterType, KeysOf(config.priorityMap))
      IN /\ ~IsEmptyTable(config.priorityMap) =>
              target.priority =
                IF Matches(config.priorityMap, afterType) = {} THEN defaultPriority
                ELSE config.priorityMap.entries[
                       Greatest(Matches(config.priorityMap, afterType))].value
         /\ target.labels = afterPriority
         /\ target.labels = NamesOf(objData.githubIssues.items[i].labels)
         /\ \A name \in Range(target.labels) :
              name \notin KeysOf(config.issueTypeMap) \cup KeysOf(config.priorityMap)
         /\ \A f \in 1..Len(target.customFieldValues) :
              LET field == config.customFields.items[f]
                  value == target.customFieldValues[f].value
              IN IF field.map # Undefined
                 THEN LET kept == SelectSeq(target.labels,
                                    LAMBDA n : HasKey(field.map, n))
                      IN value = [j \in 1..Len(kept) |-> ValueAt(field.map, kept[j])]
                 ELSE Len(value) =
                        Len(SelectSeq(target.labels, LAMBDA n :
                              \E p \in Range(field.prefixes.items) : StartsWith(n, p)))

\* The label bug is in both tables and in the Kind field's map: the type
\* classification takes it, the priority falls back to its default, and the
\* Kind field gets only the other label's value
C5_Witness ==
  /\ pc = "done"
  /\ config.issueTypeMap = Obj(<<Entry(Str_bug, "Bug"), Entry(Str_feat, "Story")>>)
  /\ config.priorityMap = Obj(<<Entry(Str_p1, "High"), Entry(Str_bug, "Low")>>)
  /\ config.customFields = Arr(<<KindField, TeamField>>)
  /\ NamesOf(github.issues[1].labels) = <<Str_bug, Str_team>>
  /\ Project.issues[1].issueType = "Bug"
  /\ Project.issues[1].priority = "Medium"
  /\ Project.issues[1].labels = <<Str_team>>
  /\ Project.issues[1].customFieldValues[1].value = << <<"t", "m">> >>
  /\ Project.issues[1].customFieldValues[2].value = << <<"x", "_", "y">> >>

\* ---------------------------------------------------------------- C6
Underscored(s) == [k \in 1..Len(s) |-> IF s[k] = " " THEN "_" ELSE s[k]]
Occurs(s, p, at) == at + Len(p) - 1 <= Len(s) /\ SubSeq(s, at, at + Len(p) - 1) = p

\* s without the first occurrence of p, s itself if p does not occur
WithoutFirst(s, p) ==
  IF \E at \in 1..Len(s) + 1 : Occurs(s, p, at)
  THEN LET at == Least({a \in 1..Len(s) + 1 : Occurs(s, p, a)})
       IN [k \in 1..(Len(s) - Len(p)) |-> IF k < at THEN s[k] ELSE s[k + Len(p)]]
  ELSE s

\* name after the first n prefixes have each been taken out once
RECURSIVE TakenOut(_, _, _)
TakenOut(name, prefixes, n) ==
  IF n = 0 THEN name
  ELSE WithoutFirst(TakenOut(name, prefixes, n - 1), prefixes[n])

PrefixFields ==
  {f \in 1..Len(config.customFields.items) :
     config.customFields.items[f].map = Undefined}

Prefixed(names, prefixes) ==
  SelectSeq(names, LAMBDA n : \E p \in Range(prefixes) : StartsWith(n, p))

\* C6 as claimed: for a spec with prefixes the value list has, in label
\* order, one entry per remaining label whose name starts with a configured
\* prefix, and the entry is the name with a leading configured prefix
\* stripped and every space replaced by an underscore, nothing else altered.
C6_OnlyTheLeadingPrefixIsStripped ==
  Produced =>
    \A i \in 1..Len(Project.issues) : \A f \in PrefixFields :
      LET prefixes == config.customFields.items[f].prefixes.items
          kept == Prefixed(Project.issues[i].labels, prefixes)
          value == Project.issues[i].customFieldValues[f].value
      IN /\ Len(value) = Len(kept)
         /\ \A j \in 1..Len(kept) :
              \E p \in Range(prefixes) :
                /\ StartsWith(kept[j], p)
                /\ value[j] = Underscored(SubSeq(kept[j], Len(p) + 1, Len(kept[j])))

\* C6 as amended: for a spec with prefixes the value list has, in label
\* order, one entry per remaining label whose name starts with a configured
\* prefix, and the entry is the name from which every configured prefix, in
\* configured order, has been taken out once where it first occurs in what
\* is left of the name, with every space then replaced by an underscore;
\* with a single configured prefix that is the name with its leading prefix
\* stripped and its spaces replaced.
C6_EveryPrefixIsTakenOutOnce ==
  Produced =>
    \A i \in 1..Len(Project.issues) : \A f \in PrefixFields :
      LET prefixes == config.customFields.items[f].prefixes.items
          kept == Prefixed(Project.issues[i].labels, prefixes)
          value == Project.issues[i].customFieldValues[f].value
      IN /\ Len(value) = Len(kept)
         /\ \A j \in 1..Len(kept) :
              /\ value[j] = Underscored(TakenOut(kept[j], prefixes, Len(prefixes)))
              /\ Len(prefixes) = 1 =>
                   value[j] = Underscored(SubSeq(kept[j], Len(prefixes[1]) + 1,
                                                 Len(kept[j])))

\* Prefixes [t-, -] and the labels "t--" and "t-x y": both prefixes are taken
\* out of the first, leaving nothing
C6_Witness ==
  /\ pc = "done"
  /\ config.customFields.items[1].prefixes.items = << <<"t", "-">>, <<"-">> >>
  /\ Project.issues[1].labels = << <<"t", "-", "-">>, Str_team >>
  /\ Project.issues[1].customFieldValues[1].value = << <<>>, <<"x", "_", "y">> >>

====
